---------------------------- MODULE Spec2Model ----------------------------
(***************************************************************************)
(* Model of the core subsystems of the repository:                         *)
(*                                                                         *)
(*   - the example discovery graph of GithubProjectExampleFinder           *)
(*     (github_project_example_finder.py), specifications SpecFinder and   *)
(*     FairFinder, and its candidate executions seen from the process,     *)
(*     specification SpecRun;                                              *)
(*   - the TemporaryPackageManager (temporary_package_manager.py):         *)
(*     its construction / version negotiation, specification SpecVenv,     *)
(*     its package operations, specification SpecPkg, one ensure_packages  *)
(*     call on its own, specification SpecEnsure, one such call followed   *)
(*     up to cleanup(), specification SpecLifecycle, and two managers of   *)
(*     one project, specification SpecShared;                              *)
(*   - Downloader.download_pdf (downloader.py), specification              *)
(*     SpecDownload.                                                       *)
(*                                                                         *)
(* Strings the code takes apart (requirement strings) are sequences of     *)
(* one-character strings; texts the code only stores and passes on (error  *)
(* texts, file contents) are tuples naming where the text came from.       *)
(***************************************************************************)
EXTENDS Integers, Sequences, FiniteSets, TLC

VARIABLES
    \* ---- example discovery graph ----
    node,              \* the graph node that runs next, "END", or "RAISED"
    status,            \* _FinderState["status"]
    last_error,        \* _FinderState["last_error"]
    last_finder,       \* _FinderState["last_finder"]
    main_file,         \* content of accra_main_example.py (self.main_filename)
    example_filename,  \* project_data["example_filename"]
    executed,          \* history: the nodes that have run, in order
    returned,          \* history: what each of them returned (or RAISED)
    llm_calls,         \* history: number of ConstructorModel().invoke calls
    cands,             \* history: the candidates the last node had to try
    runs,              \* history: the outcomes of the executions it made
    llm_answer,        \* history: what the oracle answered it, "none" if not asked
    ran,               \* history: the content the last successful execution ran
    tried_ids,         \* history: the examples files or README blocks the last
                       \* node tried, in order
    \* ---- TemporaryPackageManager ----
    supported_py_versions,   \* self.supported_py_versions
    python_version_venv,     \* self.python_version_venv
    venv_name,               \* self.venv_name
    venv_path,               \* self.venv_path
    py_venv_exe,             \* self.py_venv_exe
    _preexisting_packages,   \* self._preexisting_packages
    installed_temp_packages, \* self.installed_temp_packages
    ctor,              \* where __init__ stands: "running", "constructed", "raised"
    attempt,           \* number of the next iteration of handle_venv_creation's loop
    dirs,              \* the runtime directories that exist in path_dest_folder
    venv_pkgs,         \* the distributions installed in the runtime (pip's view)
    creatable,         \* the versions whose create_venv() succeeds
    attempts,          \* history: the create_venv() attempts, in order
    last_call,         \* history: the last method called on the manager
    repeated,          \* history: the call before it was of the same method
    last_result,       \* history: what it returned, or RAISED
    uninstalls,        \* history: the pip uninstall commands of the call, in order
    handed,            \* history: the failed installs the call handed to error_mng
    batch,             \* the package_list of the ensure_packages call looked at
    batch_ins,         \* what happens to each of its entries when it is tried
    peer,              \* a second manager made for the same project
    \* ---- one _run_file call after another, seen from the process ----
    cwd,               \* the working directory of the process
    old_dir,           \* change_dir's local old_dir
    pc,                \* where _run_file stands
    launch_dir,        \* history: the working directory the process started in
    run_log,           \* history: the outcomes of the executions made so far
    \* ---- Downloader.download_pdf ----
    max_retries,       \* self.max_retries
    fetches,           \* what each urlopen attempt would do, were it made
    dl_attempt,        \* the loop variable `attempt`: the attempts made so far
    dl_result          \* what download_pdf returned, "running" until then

finderVars == <<node, status, last_error, last_finder, main_file,
                example_filename, executed, returned, llm_calls, cands, runs,
                llm_answer, ran, tried_ids>>

managerVars == <<supported_py_versions, python_version_venv, venv_name,
                 venv_path, py_venv_exe, _preexisting_packages,
                 installed_temp_packages, ctor, attempt, dirs, venv_pkgs,
                 creatable, attempts, last_call, repeated, last_result,
                 uninstalls, handed, batch, batch_ins, peer>>

processVars == <<cwd, old_dir, pc, launch_dir, run_log>>

downloaderVars == <<max_retries, fetches, dl_attempt, dl_result>>

vars == <<finderVars, managerVars, processVars, downloaderVars>>

-----------------------------------------------------------------------------
(* Bounds *)

\* most candidates (files, blocks) one strategy finds in the repository
MaxCand == 3

\* most main modules the CLI-usage strategy derives from the README
MaxModules == 2

\* most fixture files the CLI-usage strategy finds for one main module
MaxFiles == 1

\* most lines of README.md
MaxLines == 6

\* most candidate executions followed step by step
MaxRuns == 4

\* the largest max_retries a Downloader is made with
MaxRetries == 3

\* most candidate interpreter versions handed to the manager
MaxVersions == 3

\* most requirement strings in one ensure_packages call
MaxList == 1

\* most entries installed_temp_packages holds before installs stop
MaxTracked == 3

\* most requirement strings in the ensure_packages call looked at on its own
MaxBatch == 3

\* most requirement strings in the ensure_packages call that is followed up
\* to cleanup()
MaxRequested == 2

-----------------------------------------------------------------------------
(* FinderStatus and the names of the graph's nodes *)

NO_EXAMPLE  == "NO_EXAMPLE"
EXAMPLE_FND == "EXAMPLE_FND"
EXAMPLE_ERR == "EXAMPLE_ERR"

FinderStatus == {NO_EXAMPLE, EXAMPLE_FND, EXAMPLE_ERR}

END    == "END"
RAISED == "RAISED"     \* an exception left the node: app.invoke raises

\* the list `finders` of build_example_finder_graph, in its order
finders == << "find_in_examples_folder", "find_in_readme_simple",
              "find_in_readme_cli_usage", "find_in_readme_with_llm",
              "find_in_readme_with_db", "find_in_docs", "llm_fixer" >>

Heuristics == { finders[i] : i \in 1..6 }

\* None, an unset key, a missing file
None   == <<"None">>
Absent == <<"absent">>

\* self.main_filename, the canonical example path
main_filename == <<"accra_main_example.py">>

-----------------------------------------------------------------------------
(* Candidate executions *)

\* what subprocess.run does with a candidate: exit 0, CalledProcessError,
\* TimeoutExpired, or any other exception (the interpreter cannot be launched)
Outcome == {"ok", "nonzero", "timeout", "launch"}

\* _try_execution's error_output for a failed run of `content`
ErrorOutput(kind, content) == <<"error", kind>> \o content

\* sequences of outcomes of length 0..n
OutcomeSeqs(n) == UNION { [1..k -> Outcome] : k \in 0..n }

\* Mutant of TryCandidates: the loop goes on after a candidate succeeded.
RECURSIVE TryCandidates_runs_all(_, _, _, _)
TryCandidates_runs_all(src, outs, i, upd) ==
    IF i > Len(outs) THEN upd
    ELSE LET content == Append(src, i)
         IN  TryCandidates_runs_all(src, outs, i + 1,
                 IF outs[i] = "ok"
                 THEN [upd EXCEPT !.status = EXAMPLE_FND,
                                  !.file = content,
                                  !.example = <<"accra_main_example.py">>,
                                  !.ran = content,
                                  !.runs = Append(@, outs[i])]
                 ELSE [upd EXCEPT !.status = EXAMPLE_ERR,
                                  !.last_error = <<"error", outs[i]>> \o content,
                                  !.file = content,
                                  !.runs = Append(@, outs[i])])

\* Mutant of TryCandidates: a failed candidate is removed from the disk.
RECURSIVE TryCandidates_cleans_up(_, _, _, _)
TryCandidates_cleans_up(src, outs, i, upd) ==
    IF i > Len(outs) THEN upd
    ELSE LET content == Append(src, i)
         IN  IF outs[i] = "ok"
             THEN [upd EXCEPT !.status = EXAMPLE_FND,
                              !.file = content,
                              !.example = main_filename,
                              !.ran = content,
                              !.runs = Append(@, outs[i])]
             ELSE TryCandidates_cleans_up(src, outs, i + 1,
                      [upd EXCEPT !.status = EXAMPLE_ERR,
                                  !.last_error = ErrorOutput(outs[i], content),
                                  !.file = Absent,
                                  !.runs = Append(@, outs[i])])

\* The loop shared by the strategies that try candidates one by one: write
\* candidate i to main_filename, _try_execution(); on success set
\* example_filename and return EXAMPLE_FND at once; otherwise record
\* EXAMPLE_ERR and the error and go on.  `upd` is the update dict on entry,
\* `src` names where the candidates come from.
RECURSIVE TryCandidates(_, _, _, _)
TryCandidates(src, outs, i, upd) ==
    IF i > Len(outs) THEN upd
    ELSE LET content == Append(src, i)
         IN  IF outs[i] = "ok"
             THEN [upd EXCEPT !.status = EXAMPLE_FND,
                              !.file = content,
                              !.example = main_filename,
                              !.ran = content,
                              !.runs = Append(@, outs[i])]
             ELSE TryCandidates(src, outs, i + 1,
                      [upd EXCEPT !.status = EXAMPLE_ERR,
                                  !.last_error = ErrorOutput(outs[i], content),
                                  !.file = content,
                                  !.runs = Append(@, outs[i])])

\* The update dict a heuristic node starts from (_set_entry._node), together
\* with the side effects the node has outside the graph state: the file at
\* main_filename, project_data["example_filename"], the candidates it found,
\* the outcomes of the executions it made, the number of oracle calls, and
\* whether an exception left it.
Entry(name) ==
    [ status      |-> NO_EXAMPLE,
      last_error  |-> None,
      last_finder |-> name,
      file        |-> main_file,
      example     |-> example_filename,
      cands       |-> 0,
      runs        |-> <<>>,
      answer      |-> "none",
      ran         |-> ran,
      llm         |-> 0,
      raised      |-> FALSE ]

\* find_in_examples_folder, find_in_readme_simple, find_in_readme_with_db and
\* find_in_docs: status NO_EXAMPLE, then the candidate loop.  `outs` holds one
\* outcome per candidate the strategy finds (glob result, README blocks, or
\* the blocks that pass the "python <file>.py" filter), in the order tried.
CandidateStrategy(name, outs) ==
    TryCandidates(<<name>>, outs, 1, [Entry(name) EXCEPT !.cands = Len(outs)])

\* how an execution fails
Failure == Outcome \ {"ok"}

\* One main module of find_in_readme_cli_usage:
\*   probe_fail  : the ['-h'] probe fails in _try_execution: continue
\*   rerun_raise : the probe succeeds, the bare _run_file() after it raises
\*   no_match    : no "positional arguments:" in the help text: continue
\*   files       : the fixture files are tried, one outcome each
\* `fail` says how the failing execution of the first two kinds fails.
CliModule == [kind : {"probe_fail", "rerun_raise"}, fail : Failure,
              outs : {<<>>}]
             \cup [kind : {"no_match"}, fail : {"nonzero"}, outs : {<<>>}]
             \cup [kind : {"files"}, fail : {"nonzero"},
                   outs : OutcomeSeqs(MaxFiles)]

CliModuleSeqs == UNION { [1..k -> CliModule] : k \in 0..MaxModules }

\* what is on disk while a file opened with "w" is still open and the short
\* text written to it sits in the writer's buffer: an empty file
Truncated == <<"empty">>

\* The fixture-file loop of find_in_readme_cli_usage for main module j.
\* _try_execution() is called inside the "with open(...)" block, before the
\* file is closed: the interpreter runs the truncated file, and the text
\* reaches the disk when the block is left (on return, or before the next
\* candidate).
RECURSIVE CliFiles(_, _, _, _)
CliFiles(j, outs, i, upd) ==
    IF i > Len(outs) THEN upd
    ELSE LET content == <<"cli_file", j, i>>
         IN  IF outs[i] = "ok"
             THEN [upd EXCEPT !.status = EXAMPLE_FND,
                              !.file = content,
                              !.example = main_filename,
                              !.ran = Truncated,
                              !.runs = Append(@, outs[i])]
             ELSE CliFiles(j, outs, i + 1,
                      [upd EXCEPT !.status = EXAMPLE_ERR,
                                  !.last_error = ErrorOutput(outs[i], Truncated),
                                  !.file = content,
                                  !.runs = Append(@, outs[i])])

RECURSIVE CliUsage(_, _, _)
CliUsage(mods, j, upd) ==
    IF j > Len(mods) \/ upd.raised \/ upd.status = EXAMPLE_FND THEN upd
    ELSE LET m     == mods[j]
             help  == <<"cli_help", j>>
             wrote == [upd EXCEPT !.file = help]
             probe == [wrote EXCEPT !.runs = Append(@, "ok")]
             rerun == [probe EXCEPT !.runs = Append(@, "ok")]
         IN  CASE m.kind = "probe_fail"  ->
                    CliUsage(mods, j + 1,
                             [wrote EXCEPT !.runs = Append(@, m.fail)])
               [] m.kind = "rerun_raise" ->
                    [probe EXCEPT !.runs = Append(@, m.fail), !.raised = TRUE]
               [] m.kind = "no_match"    -> CliUsage(mods, j + 1, rerun)
               [] m.kind = "files"       ->
                    CliUsage(mods, j + 1,
                             CliFiles(j, m.outs, 1,
                                 [rerun EXCEPT !.cands = @ + Len(m.outs)]))

\* what the oracle returns: it raises, or its text has no content, no python
\* block, a python block that is empty once stripped, or code
LlmAnswer == {"raise", "empty", "noblock", "emptycode", "code"}

\* Mutant of ReadmeWithLlm: an answer without text is not checked for and
\* taking it apart raises.
ReadmeWithLlm_needs_text(readme, answer, out) ==
    LET upd   == Entry("find_in_readme_with_llm")
        asked == [upd EXCEPT !.llm = 1, !.answer = answer]
    IN  IF ~readme THEN upd
        ELSE IF answer \in {"raise", "empty"} THEN [asked EXCEPT !.raised = TRUE]
        ELSE IF answer # "code" THEN asked
        ELSE [asked EXCEPT !.status = IF out = "ok" THEN EXAMPLE_FND
                                      ELSE EXAMPLE_ERR,
                           !.last_error = IF out = "ok" THEN None
                                          ELSE <<"error", out,
                                                 "find_in_readme_with_llm", 1>>,
                           !.file = <<"find_in_readme_with_llm", 1>>,
                           !.example = IF out = "ok"
                                       THEN <<"accra_main_example.py">>
                                       ELSE example_filename,
                           !.ran = IF out = "ok"
                                   THEN <<"find_in_readme_with_llm", 1>>
                                   ELSE ran,
                           !.cands = 1,
                           !.runs = <<out>>]

\* find_in_readme_with_llm
ReadmeWithLlm(readme, answer, out) ==
    LET upd   == Entry("find_in_readme_with_llm")
        asked == [upd EXCEPT !.llm = 1, !.answer = answer]
    IN  IF ~readme THEN upd
        ELSE IF answer = "raise" THEN [asked EXCEPT !.raised = TRUE]
        ELSE IF answer # "code" THEN asked
        ELSE TryCandidates(<<"find_in_readme_with_llm">>, <<out>>, 1,
                           [asked EXCEPT !.cands = 1])

\* Mutant of LlmFixer: a failed repair run reports EXAMPLE_ERR.
LlmFixer_reports_error(answer, out) ==
    [ status      |-> IF main_file # Absent /\ answer = "code" /\ out = "ok"
                      THEN EXAMPLE_FND ELSE EXAMPLE_ERR,
      last_error  |-> last_error,
      last_finder |-> last_finder,
      file        |-> IF answer = "code" /\ out # "ok" THEN Absent ELSE main_file,
      example     |-> example_filename,
      cands       |-> 0,
      runs        |-> <<>>,
      answer      |-> answer,
      ran         |-> ran,
      llm         |-> 1,
      raised      |-> FALSE ]

\* Mutant of LlmFixer: the example path is reported before the repaired file
\* has been executed, and stays reported when the execution fails.
LlmFixer_keeps_path(answer, out) ==
    [ status      |-> IF answer = "code" /\ out = "ok"
                      THEN EXAMPLE_FND ELSE NO_EXAMPLE,
      last_error  |-> last_error,
      last_finder |-> last_finder,
      file        |-> IF answer # "code" THEN main_file
                      ELSE IF out = "ok" THEN <<"fixed">> \o main_file
                      ELSE Absent,
      example     |-> IF answer = "code" THEN <<"accra_main_example.py">>
                      ELSE example_filename,
      cands       |-> IF answer = "code" THEN 1 ELSE 0,
      runs        |-> IF answer = "code" THEN <<out>> ELSE <<>>,
      answer      |-> answer,
      ran         |-> IF answer = "code" /\ out = "ok"
                      THEN <<"fixed">> \o main_file ELSE ran,
      llm         |-> 1,
      raised      |-> answer = "raise" ]

\* Mutant of LlmFixer: the repaired file is executed and the outcome dropped.
LlmFixer_discards(answer, out) ==
    [ LlmFixer_keeps_path(answer, out) EXCEPT !.status = NO_EXAMPLE,
                                              !.example = example_filename ]

\* llm_fixer: the node is not wrapped by _set_entry, so its update holds the
\* status only; last_error and last_finder stay those of the state.
\* _try_execution(cleanup=True) removes the file when the run fails.
LlmFixer(answer, out) ==
    LET upd   == [ status      |-> NO_EXAMPLE,
                   last_error  |-> last_error,
                   last_finder |-> last_finder,
                   file        |-> main_file,
                   example     |-> example_filename,
                   cands       |-> 0,
                   runs        |-> <<>>,
                   answer      |-> "none",
                   ran         |-> ran,
                   llm         |-> 0,
                   raised      |-> FALSE ]
        asked == [upd EXCEPT !.llm = 1, !.answer = answer]
        fixed == <<"fixed">> \o main_file   \* the oracle's repair of what was read
    IN  IF main_file = Absent THEN [upd EXCEPT !.raised = TRUE]
        ELSE IF answer = "raise" THEN [asked EXCEPT !.raised = TRUE]
        ELSE IF answer # "code" THEN asked
        ELSE IF out = "ok"
             THEN [asked EXCEPT !.status = EXAMPLE_FND, !.file = fixed,
                                !.example = main_filename, !.cands = 1,
                                !.runs = <<out>>, !.ran = fixed]
             ELSE [asked EXCEPT !.file = Absent, !.cands = 1,
                                !.runs = <<out>>]

-----------------------------------------------------------------------------
(* The graph: routing and node execution *)

\* Mutant of Route: a failed candidate is routed like "nothing found".
Route_ignores_error(st, lf) == IF st # EXAMPLE_FND THEN lf ELSE st

\* Mutant of Route: a found example is routed like "nothing found".
Route_found_goes_on(st, lf) == IF st = EXAMPLE_ERR THEN st ELSE lf

\* _route: the key looked up in next_node
Route(st, lf) == IF st = NO_EXAMPLE THEN lf ELSE st

\* Mutant of next_node: a found example is handed on to the repair node.
next_node_found_continues(key) ==
    CASE key = "find_in_examples_folder"  -> "find_in_readme_simple"
      [] key = "find_in_readme_simple"    -> "find_in_readme_cli_usage"
      [] key = "find_in_readme_cli_usage" -> "find_in_readme_with_llm"
      [] key = "find_in_readme_with_llm"  -> "find_in_readme_with_db"
      [] key = "find_in_readme_with_db"   -> "find_in_docs"
      [] key = "find_in_docs"             -> END
      [] key = EXAMPLE_FND                -> "llm_fixer"
      [] key = EXAMPLE_ERR                -> "llm_fixer"

\* Mutant of next_node: after the second heuristic the chain starts again.
next_node_restarts(key) ==
    CASE key = "find_in_examples_folder"  -> "find_in_readme_simple"
      [] key = "find_in_readme_simple"    -> "find_in_examples_folder"
      [] key = "find_in_readme_cli_usage" -> "find_in_readme_with_llm"
      [] key = "find_in_readme_with_llm"  -> "find_in_readme_with_db"
      [] key = "find_in_readme_with_db"   -> "find_in_docs"
      [] key = "find_in_docs"             -> END
      [] key = EXAMPLE_FND                -> END
      [] key = EXAMPLE_ERR                -> "llm_fixer"

\* Mutant of next_node: the repair node also follows a first heuristic that
\* found nothing to run.
next_node_repairs_first(key) ==
    CASE key = "find_in_examples_folder"  -> "llm_fixer"
      [] key = "find_in_readme_simple"    -> "find_in_readme_cli_usage"
      [] key = "find_in_readme_cli_usage" -> "find_in_readme_with_llm"
      [] key = "find_in_readme_with_llm"  -> "find_in_readme_with_db"
      [] key = "find_in_readme_with_db"   -> "find_in_docs"
      [] key = "find_in_docs"             -> END
      [] key = EXAMPLE_FND                -> END
      [] key = EXAMPLE_ERR                -> "llm_fixer"

\* Mutant of next_node: a failed candidate ends the run without repair.
next_node_error_ends(key) ==
    CASE key = "find_in_examples_folder"  -> "find_in_readme_simple"
      [] key = "find_in_readme_simple"    -> "find_in_readme_cli_usage"
      [] key = "find_in_readme_cli_usage" -> "find_in_readme_with_llm"
      [] key = "find_in_readme_with_llm"  -> "find_in_readme_with_db"
      [] key = "find_in_readme_with_db"   -> "find_in_docs"
      [] key = "find_in_docs"             -> END
      [] key = EXAMPLE_FND                -> END
      [] key = EXAMPLE_ERR                -> END

\* the dict next_node of build_example_finder_graph
next_node(key) ==
    CASE key = "find_in_examples_folder"  -> "find_in_readme_simple"
      [] key = "find_in_readme_simple"    -> "find_in_readme_cli_usage"
      [] key = "find_in_readme_cli_usage" -> "find_in_readme_with_llm"
      [] key = "find_in_readme_with_llm"  -> "find_in_readme_with_db"
      [] key = "find_in_readme_with_db"   -> "find_in_docs"
      [] key = "find_in_docs"             -> END
      [] key = EXAMPLE_FND                -> END
      [] key = EXAMPLE_ERR                -> "llm_fixer"

\* A node ran and returned `upd` (or raised): the update is merged into the
\* state and the conditional edge picks the next node.  An exception leaves
\* the state as it was; what the node did to the disk and to project_data
\* stays done.
RunNode(name, upd) ==
    /\ node = name
    /\ UNCHANGED <<managerVars, processVars, downloaderVars>>
    /\ executed' = Append(executed, name)
    /\ main_file' = upd.file
    /\ example_filename' = upd.example
    /\ llm_calls' = llm_calls + upd.llm
    /\ cands' = upd.cands
    /\ runs' = upd.runs
    /\ llm_answer' = upd.answer
    /\ ran' = upd.ran
    /\ returned' = Append(returned, IF upd.raised THEN RAISED ELSE upd.status)
    /\ IF upd.raised
       THEN /\ node' = RAISED
            /\ UNCHANGED <<status, last_error, last_finder>>
       ELSE /\ status' = upd.status
            /\ last_error' = upd.last_error
            /\ last_finder' = upd.last_finder
            /\ node' = next_node(Route(upd.status, upd.last_finder))

\* how many candidates a loop that stops at the first success gets to
NumTried(outs) ==
    IF outs = <<>> THEN 0
    ELSE CHOOSE n \in 1..Len(outs) :
             /\ \A i \in 1..(n - 1) : outs[i] # "ok"
             /\ n = Len(outs) \/ outs[n] = "ok"

\* glob.glob(self.root + "/examples/*.py") for n files, a file being named
\* by its rank in the lexicographic order of the names: the list comes in
\* the order the directory is read, which is any order.
GlobOrders(n) ==
    { o \in [1..n -> 1..n] : \A i, j \in 1..n : i # j => o[i] # o[j] }

\* The lines of README.md, by what _markdown_blocks(lines, "python") makes
\* of them: "py" opens a block when none is open (the stripped line starts
\* with ```python), "fence" closes one (the stripped line is ```), "text" is
\* any other line.
LineKind == {"py", "fence", "text"}

ReadmeTexts == UNION { [1..k -> LineKind] : k \in 0..MaxLines }

\* The loop of _markdown_blocks over the lines from line i on; a block is
\* named by the number of the line that opened it.  A block still open at
\* the end of the text is dropped.
RECURSIVE MarkdownBlocks(_, _, _, _, _)
MarkdownBlocks(lines, i, in_block, start, blocks) ==
    IF i > Len(lines) THEN blocks
    ELSE IF ~in_block
    THEN MarkdownBlocks(lines, i + 1, lines[i] = "py", i, blocks)
    ELSE IF lines[i] = "fence"
    THEN MarkdownBlocks(lines, i + 1, FALSE, start, Append(blocks, start))
    ELSE MarkdownBlocks(lines, i + 1, TRUE, start, blocks)

_markdown_blocks(lines) == MarkdownBlocks(lines, 1, FALSE, 0, <<>>)

find_in_examples_folder ==
    \E outs \in OutcomeSeqs(MaxCand) :
    \E order \in GlobOrders(Len(outs)) :
        /\ RunNode("find_in_examples_folder",
                   CandidateStrategy("find_in_examples_folder", outs))
        /\ tried_ids' = [i \in 1..NumTried(outs) |-> order[i]]

find_in_readme_simple ==
    \E lines \in ReadmeTexts :
        LET blocks == _markdown_blocks(lines)
        IN  \E outs \in [1..Len(blocks) -> Outcome] :
                /\ RunNode("find_in_readme_simple",
                           CandidateStrategy("find_in_readme_simple", outs))
                /\ tried_ids' = [i \in 1..NumTried(outs) |-> blocks[i]]

find_in_readme_cli_usage ==
    \E mods \in CliModuleSeqs :
        /\ RunNode("find_in_readme_cli_usage",
                   CliUsage(mods, 1, Entry("find_in_readme_cli_usage")))
        /\ tried_ids' = <<>>

find_in_readme_with_llm ==
    \E readme \in BOOLEAN, answer \in LlmAnswer, out \in Outcome :
        /\ RunNode("find_in_readme_with_llm",
                   ReadmeWithLlm(readme, answer, out))
        /\ tried_ids' = <<>>

find_in_readme_with_db ==
    \E outs \in OutcomeSeqs(MaxCand) :
        /\ RunNode("find_in_readme_with_db",
                   CandidateStrategy("find_in_readme_with_db", outs))
        /\ tried_ids' = <<>>

find_in_docs ==
    \E outs \in OutcomeSeqs(MaxCand) :
        /\ RunNode("find_in_docs", CandidateStrategy("find_in_docs", outs))
        /\ tried_ids' = <<>>

llm_fixer ==
    \E answer \in LlmAnswer, out \in Outcome :
        /\ RunNode("llm_fixer", LlmFixer(answer, out))
        /\ tried_ids' = <<>>


-----------------------------------------------------------------------------
(* Requirement strings *)

\* the requirement strings handed to the manager
Reqs == { <<"a">>,
          <<"a", "=", "=", "1">>,
          <<"A", "[", "x", "]">>,
          <<" ", "b">>,
          <<"-", "e">> }

\* the distributions these requirements name
PkgNames == { <<"a">>, <<"b">> }

\* str.strip()
RECURSIVE LStrip(_)
LStrip(s) == IF s # <<>> /\ Head(s) = " " THEN LStrip(Tail(s)) ELSE s

RECURSIVE RStrip(_)
RStrip(s) ==
    IF s # <<>> /\ s[Len(s)] = " " THEN RStrip(SubSeq(s, 1, Len(s) - 1)) ELSE s

Strip(s) == RStrip(LStrip(s))

\* str.lower()
LowerChar(c) ==
    CASE c = "A" -> "a"
      [] c = "B" -> "b"
      [] OTHER   -> c

Lower(s) == [i \in 1..Len(s) |-> LowerChar(s[i])]

\* the text before the first character of `seps`: str.split(sep)[0] and
\* re.split("[...]", s)[0]
RECURSIVE SplitFirst(_, _)
SplitFirst(s, seps) ==
    IF s = <<>> \/ Head(s) \in seps THEN <<>>
    ELSE <<Head(s)>> \o SplitFirst(Tail(s), seps)

\* TemporaryPackageManager._extract_base_package
_extract_base_package(pkg) ==
    SplitFirst(Strip(Strip(SplitFirst(pkg, {";"}))), {"<", ">", "=", "[", "]"})

\* Mutant of CleanupBase: the extras are not cut off.
CleanupBase_whole(pkg) == Lower(pkg)

\* the name cleanup() compares with _preexisting_packages
CleanupBase(pkg) == Lower(SplitFirst(pkg, {"["}))

\* the distribution a pip command given this requirement acts on, spelt as
\* the code spells the names of "pip list" (lower case)
PipName(req) ==
    Lower(SplitFirst(Strip(req),
                     {"<", ">", "=", "!", "~", "[", "]", ";", " "}))

-----------------------------------------------------------------------------
(* TemporaryPackageManager: construction *)

Versions == 1..MaxVersions

\* os.path.join(self.path_dest_folder, ".venv-py" + version)
VenvName(v) == <<".venv-py", v>>
VenvDir(v)  == <<"path_dest_folder", ".venv-py", v>>

\* os.path.join(venv_path, "bin", "python")
VenvExe(dir) == Append(dir, "bin/python")

\* the candidate lists: versions without repetition, any order
CandidateLists ==
    { l \in UNION { [1..n -> Versions] : n \in 1..MaxVersions } :
        \A i, j \in 1..Len(l) : i # j => l[i] # l[j] }

\* Mutant of VersionOrder: every iteration takes the last element again.
VersionOrder_stuck(n) == [k \in 1..n |-> n]

\* Mutant of VersionOrder: the loop runs from the front of the list.
VersionOrder_forward(n) == [k \in 1..n |-> k]

\* the indices of supported_py_versions in the order the loop visits them:
\* range(len(self.supported_py_versions) - 1, -1, -1)
VersionOrder(n) == [k \in 1..n |-> n - k + 1]

\* How create_venv() can fail (it raises) or succeed:
\*   interp_fail      ensure_py_interpreter_is_installed raises
\*   venv_fail        "python -m venv" fails and the error is re-raised
\*   partial_noexe    ... fails, directory without pip, no interpreter in it
\*   partial_pip_fail ... fails, directory without pip, install_pip raises
\*   created_noexe    venv created, update_venv_attributes raises
\*   created_nopip    venv created, install_package finds no bin/pip
\*   partial_ok       ... fails, directory without pip, install_pip succeeds
\*   ok               venv created, attributes updated, packages installed
CreateFailure == {"interp_fail", "venv_fail", "partial_noexe",
                  "partial_pip_fail", "created_noexe", "created_nopip"}
CreateSuccess == {"partial_ok", "ok"}

\* Mutant of create_venv: the interpreter path is not recomputed when the
\* runtime directory changes.
create_venv_stale_exe(v, kind, made) ==
    LET dir == VenvDir(v)
    IN  [ ok          |-> kind \in CreateSuccess,
          venv_path   |-> IF kind \in {"interp_fail", "venv_fail"}
                          THEN venv_path ELSE dir,
          py_venv_exe |-> IF py_venv_exe = None
                             /\ kind \notin {"interp_fail", "venv_fail",
                                             "partial_noexe", "created_noexe"}
                          THEN VenvExe(dir) ELSE py_venv_exe,
          dirs        |-> IF kind = "interp_fail" THEN dirs
                          ELSE IF kind = "venv_fail"
                               THEN (IF made THEN dirs \cup {dir} ELSE dirs)
                               ELSE dirs \cup {dir} ]

\* create_venv() for version v: the attributes and the directory it leaves.
\* `made` says whether a failing "python -m venv" left a directory behind.
create_venv(v, kind, made) ==
    LET dir == VenvDir(v)
    IN  [ ok          |-> kind \in CreateSuccess,
          venv_path   |-> IF kind \in {"interp_fail", "venv_fail"}
                          THEN venv_path ELSE dir,
          py_venv_exe |-> IF kind \in {"interp_fail", "venv_fail",
                                       "partial_noexe", "created_noexe"}
                          THEN py_venv_exe ELSE VenvExe(dir),
          dirs        |-> IF kind = "interp_fail" THEN dirs
                          ELSE IF kind = "venv_fail"
                               THEN (IF made THEN dirs \cup {dir} ELSE dirs)
                               ELSE dirs \cup {dir} ]

\* Mutant of RemoveFailedVenv: the directory of the failed attempt stays.
RemoveFailedVenv_keeps(ds, dir, rm_ok) == ds

\* the except branch of handle_venv_creation: the directory of the failed
\* attempt is removed when it exists; shutil.rmtree may fail (rm_ok = FALSE)
RemoveFailedVenv(ds, dir, rm_ok) ==
    IF dir \in ds /\ rm_ok THEN ds \ {dir} ELSE ds

\* initialize_existing_packages: the names "pip list" reports, lower-cased;
\* the empty set when the command cannot be run or fails
initialize_existing_packages(env, listing_ok) ==
    IF listing_ok THEN { Lower(p) : p \in env } ELSE {}

\* the runtime's interpreter can be launched: the file is there
Launchable == py_venv_exe # None /\ venv_path \in dirs

\* One iteration of the loop of handle_venv_creation, and after the last one
\* the rest of __init__ (initialize_existing_packages) or the RuntimeError.
handle_venv_creation ==
    /\ ctor = "running"
    /\ attempt <= Len(supported_py_versions)
    /\ \E kind \in CreateFailure \cup CreateSuccess,
          made \in BOOLEAN, rm_ok \in BOOLEAN,
          env \in SUBSET {<<"b">>}, listing_ok \in BOOLEAN :
        LET n   == Len(supported_py_versions)
            v   == supported_py_versions[VersionOrder(n)[attempt]]
            r   == create_venv(v, kind, made)
            dir == VenvDir(v)
        IN  /\ (kind \in CreateSuccess) <=> (v \in creatable)
            /\ python_version_venv' = v
            /\ venv_name' = VenvName(v)
            /\ venv_path' = r.venv_path
            /\ py_venv_exe' = r.py_venv_exe
            /\ attempts' = Append(attempts, [version |-> v, ok |-> r.ok])
            /\ attempt' = attempt + 1
            /\ IF r.ok
               THEN /\ dirs' = r.dirs
                    /\ venv_pkgs' = env
                    /\ _preexisting_packages' =
                           initialize_existing_packages(env, listing_ok)
                    /\ ctor' = "constructed"
               ELSE /\ dirs' = RemoveFailedVenv(r.dirs, dir, rm_ok)
                    /\ ctor' = IF dir \in r.dirs /\ ~rm_ok THEN "raised"
                               ELSE IF attempt = n THEN "raised"
                               ELSE "running"
                    /\ UNCHANGED <<venv_pkgs, _preexisting_packages>>
    /\ UNCHANGED <<supported_py_versions, installed_temp_packages, creatable,
                   last_call, repeated, last_result, uninstalls, handed,
                   batch, batch_ins, peer>>
    /\ UNCHANGED <<finderVars, processVars, downloaderVars>>

\* The finder's variables while only the manager is looked at.
IdleFinder ==
    /\ node = END
    /\ status = NO_EXAMPLE
    /\ last_error = None
    /\ last_finder = None
    /\ main_file = Absent
    /\ example_filename = None
    /\ executed = <<>>
    /\ returned = <<>>
    /\ llm_calls = 0
    /\ cands = 0
    /\ runs = <<>>
    /\ llm_answer = "none"
    /\ ran = None
    /\ tried_ids = <<>>

\* no ensure_packages call is singled out
NoBatch == batch = <<>> /\ batch_ins = <<>>

\* the fields of a second manager before its construction
Unconstructed == [ ctor                    |-> "none",
                   venv_path               |-> None,
                   py_venv_exe             |-> None,
                   _preexisting_packages   |-> {},
                   installed_temp_packages |-> <<>> ]

\* no second manager has been constructed
NoPeer == peer = Unconstructed

\* no candidate execution is looked at step by step
IdleProcess ==
    /\ cwd = <<"cwd">>
    /\ old_dir = None
    /\ pc = "idle"
    /\ launch_dir = <<"cwd">>
    /\ run_log = <<>>

\* download_pdf is not looked at
IdleDownloader ==
    /\ max_retries = 0
    /\ fetches = <<>>
    /\ dl_attempt = 0
    /\ dl_result = None

\* TemporaryPackageManager(python_version=..., supported_python_versions=...)
\* up to the call of handle_venv_creation: nothing created yet.  Directories
\* of earlier runs may exist.
InitVenv ==
    /\ supported_py_versions \in CandidateLists
    /\ python_version_venv = supported_py_versions[Len(supported_py_versions)]
    /\ venv_name = VenvName(python_version_venv)
    /\ venv_path = None
    /\ py_venv_exe = None
    /\ _preexisting_packages = {}
    /\ installed_temp_packages = <<>>
    /\ ctor = "running"
    /\ attempt = 1
    /\ dirs \in SUBSET { VenvDir(supported_py_versions[i]) :
                           i \in 1..Len(supported_py_versions) }
    /\ venv_pkgs = {}
    /\ creatable \in SUBSET { supported_py_versions[i] :
                                i \in 1..Len(supported_py_versions) }
    /\ attempts = <<>>
    /\ last_call = "__init__"
    /\ repeated = FALSE
    /\ last_result = None
    /\ uninstalls = <<>>
    /\ handed = <<>>
    /\ NoBatch
    /\ NoPeer
    /\ IdleProcess
    /\ IdleDownloader
    /\ IdleFinder

NextVenv == handle_venv_creation

SpecVenv == InitVenv /\ [][NextVenv]_vars

-----------------------------------------------------------------------------
(* TemporaryPackageManager: package operations *)

\* what happens to one entry of package_list when the runtime can be
\* launched: the import check finds it, or pip install succeeds or fails
ElemInput == {"importable", "install_ok", "install_fail"}

ReqLists == UNION { [1..n -> Reqs] : n \in 0..MaxList }

\* Mutant of InstallFailed: the failed install ends the batch.
InstallFailed_fatal(acc, stripped_pkg) == [acc EXCEPT !.raised = TRUE]

\* the except branches of ensure_packages: the CalledProcessError of a failed
\* "pip install" is handed to error_mng.handle_error with the command, and
\* the loop goes on
InstallFailed(acc, stripped_pkg) ==
    [acc EXCEPT !.handed = Append(@, stripped_pkg)]

\* Mutant of EnsureLoop: an entry without extras is installed without
\* looking at _preexisting_packages first.
RECURSIVE EnsureLoop_no_precheck(_, _, _, _)
EnsureLoop_no_precheck(list, ins, i, acc) ==
    IF i > Len(list) \/ acc.raised THEN acc
    ELSE LET stripped_pkg == Strip(list[i])
             clean_pkg    == _extract_base_package(stripped_pkg)
             installed    == [acc EXCEPT
                                !.installed = Append(@, stripped_pkg),
                                !.env = @ \cup {PipName(stripped_pkg)}]
             thrown       == [acc EXCEPT !.raised = TRUE]
             next(a)      == EnsureLoop_no_precheck(list, ins, i + 1, a)
         IN  IF stripped_pkg = <<>> \/ Head(stripped_pkg) = "-"
             THEN next(acc)
             ELSE IF \E k \in 1..Len(stripped_pkg) : stripped_pkg[k] = "["
             THEN IF ~Launchable THEN thrown
                  ELSE IF ins[i] = "install_fail"
                  THEN next(InstallFailed(acc, stripped_pkg))
                  ELSE next(installed)
             ELSE IF clean_pkg = <<>> THEN next(acc)
             ELSE IF ~Launchable THEN thrown
             ELSE IF ins[i] = "importable" THEN next(acc)
             ELSE IF ins[i] = "install_ok" THEN next(installed)
             ELSE next(InstallFailed(acc, stripped_pkg))

\* the loop of ensure_packages; acc = [installed, env, handed, raised]
RECURSIVE EnsureLoop(_, _, _, _)
EnsureLoop(list, ins, i, acc) ==
    IF i > Len(list) \/ acc.raised THEN acc
    ELSE LET stripped_pkg == Strip(list[i])
             clean_pkg    == _extract_base_package(stripped_pkg)
             installed    == [acc EXCEPT
                                !.installed = Append(@, stripped_pkg),
                                !.env = @ \cup {PipName(stripped_pkg)}]
             thrown       == [acc EXCEPT !.raised = TRUE]
             next(a)      == EnsureLoop(list, ins, i + 1, a)
         IN  IF stripped_pkg = <<>> \/ Head(stripped_pkg) = "-"
             THEN next(acc)
             ELSE IF \E k \in 1..Len(stripped_pkg) : stripped_pkg[k] = "["
             THEN IF ~Launchable THEN thrown
                  ELSE IF ins[i] = "install_fail"
                  THEN next(InstallFailed(acc, stripped_pkg))
                  ELSE next(installed)
             ELSE IF clean_pkg = <<>> THEN next(acc)
             ELSE IF Lower(clean_pkg) \in _preexisting_packages THEN next(acc)
             ELSE IF ~Launchable THEN thrown
             ELSE IF ins[i] = "importable" THEN next(acc)
             ELSE IF ins[i] = "install_ok" THEN next(installed)
             ELSE next(InstallFailed(acc, stripped_pkg))

\* what ensure_packages(package_list) leaves when its entries fare as `ins`
EnsureResult(package_list, ins) ==
    EnsureLoop(package_list, ins, 1,
               [installed |-> installed_temp_packages,
                env       |-> venv_pkgs,
                handed    |-> <<>>,
                raised    |-> FALSE])

\* ensure_packages(package_list)
EnsurePackages(package_list, ins) ==
    /\ ctor = "constructed"
    /\ LET r == EnsureResult(package_list, ins)
       IN  /\ installed_temp_packages' = r.installed
           /\ venv_pkgs' = r.env
           /\ handed' = r.handed
           /\ last_result' = IF r.raised THEN <<RAISED>> ELSE None
    /\ uninstalls' = <<>>
    /\ last_call' = "ensure_packages"
    /\ repeated' = (last_call = "ensure_packages")
    /\ UNCHANGED <<supported_py_versions, python_version_venv, venv_name,
                   venv_path, py_venv_exe, _preexisting_packages, ctor,
                   attempt, dirs, creatable, attempts, batch, batch_ins, peer>>
    /\ UNCHANGED <<finderVars, processVars, downloaderVars>>

ensure_packages ==
    \E package_list \in ReqLists :
        /\ Len(installed_temp_packages) + Len(package_list) <= MaxTracked
        /\ \E ins \in [1..Len(package_list) -> ElemInput] :
               EnsurePackages(package_list, ins)

\* install_package: [result, env, handed].  With the runtime directory gone
\* there is no bin/pip and the method raises; a name in _preexisting_packages
\* skips the if block and the method ends without a return statement.
InstallPackage(package_name, install_ok) ==
    IF ~Launchable
    THEN [result |-> <<RAISED>>, env |-> venv_pkgs, handed |-> <<>>]
    ELSE IF package_name \in _preexisting_packages
    THEN [result |-> None, env |-> venv_pkgs, handed |-> <<>>]
    ELSE IF install_ok
    THEN [result |-> <<"True">>, env |-> venv_pkgs \cup {PipName(package_name)},
          handed |-> <<>>]
    ELSE [result |-> <<"False">>, env |-> venv_pkgs,
          handed |-> <<package_name>>]

install_package ==
    /\ ctor = "constructed"
    /\ \E package_name \in Reqs, install_ok \in BOOLEAN :
         LET r == InstallPackage(package_name, install_ok)
         IN  /\ venv_pkgs' = r.env
             /\ last_result' = r.result
             /\ handed' = r.handed
    /\ uninstalls' = <<>>
    /\ last_call' = "install_package"
    /\ repeated' = (last_call = "install_package")
    /\ UNCHANGED <<supported_py_versions, python_version_venv, venv_name,
                   venv_path, py_venv_exe, _preexisting_packages,
                   installed_temp_packages, ctor, attempt, dirs, creatable,
                   attempts, batch, batch_ins, peer>>
    /\ UNCHANGED <<finderVars, processVars, downloaderVars>>

\* The subdependency step of GitHubProject.body_create_project_profile for
\* one dependency `dep` of a required package: when dep is not importable,
\* install_package(dep), then the caller appends dep to the manager's
\* installed_temp_packages itself, whatever install_package returned.
\* Without the interpreter the import check raises FileNotFoundError.
install_subdependency ==
    /\ ctor = "constructed"
    /\ Len(installed_temp_packages) < MaxTracked
    /\ \E dep \in PkgNames, importable \in BOOLEAN, install_ok \in BOOLEAN :
         IF ~Launchable
         THEN /\ last_result' = <<RAISED>>
              /\ handed' = <<>>
              /\ UNCHANGED <<venv_pkgs, installed_temp_packages>>
         ELSE IF importable
         THEN /\ last_result' = None
              /\ handed' = <<>>
              /\ UNCHANGED <<venv_pkgs, installed_temp_packages>>
         ELSE LET r == InstallPackage(dep, install_ok)
              IN  /\ venv_pkgs' = r.env
                  /\ last_result' = r.result
                  /\ handed' = r.handed
                  /\ installed_temp_packages' =
                         Append(installed_temp_packages, dep)
    /\ uninstalls' = <<>>
    /\ last_call' = "install_subdependency"
    /\ repeated' = (last_call = "install_subdependency")
    /\ UNCHANGED <<supported_py_versions, python_version_venv, venv_name,
                   venv_path, py_venv_exe, _preexisting_packages, ctor,
                   attempt, dirs, creatable, attempts, batch, batch_ins, peer>>
    /\ UNCHANGED <<finderVars, processVars, downloaderVars>>

\* a later call of initialize_existing_packages (analyze() makes one)
reinitialize_existing_packages ==
    /\ ctor = "constructed"
    /\ \E listing_ok \in BOOLEAN :
         _preexisting_packages' =
             initialize_existing_packages(venv_pkgs, listing_ok /\ Launchable)
    /\ uninstalls' = <<>>
    /\ handed' = <<>>
    /\ last_call' = "initialize_existing_packages"
    /\ repeated' = (last_call = "initialize_existing_packages")
    /\ last_result' = None
    /\ UNCHANGED <<supported_py_versions, python_version_venv, venv_name,
                   venv_path, py_venv_exe, installed_temp_packages, ctor,
                   attempt, dirs, venv_pkgs, creatable, attempts, batch,
                   batch_ins, peer>>
    /\ UNCHANGED <<finderVars, processVars, downloaderVars>>

\* the orders in which list(set(self.installed_temp_packages)) can come
Orders(S) ==
    { o \in [1..Cardinality(S) -> S] :
        \A i, j \in 1..Cardinality(S) : i # j => o[i] # o[j] }

\* the entries cleanup() walks over
CleanupEntries(tracked) == { tracked[i] : i \in 1..Len(tracked) }

\* cleanup() decides to uninstall this entry
ShouldUninstall(pkg) ==
    /\ pkg \notin _preexisting_packages
    /\ CleanupBase(pkg) \notin _preexisting_packages

\* the loop of cleanup; acc = [env, attempts, raised].  subprocess.run raises
\* CalledProcessError (caught) when pip exits non-zero and FileNotFoundError
\* (not caught) when the interpreter is not there.
RECURSIVE CleanupLoop(_, _, _, _)
CleanupLoop(order, outs, i, acc) ==
    IF i > Len(order) \/ acc.raised THEN acc
    ELSE LET pkg == order[i]
             tried == [acc EXCEPT !.attempts = Append(@, pkg)]
         IN  IF ~ShouldUninstall(pkg)
             THEN CleanupLoop(order, outs, i + 1, acc)
             ELSE IF ~Launchable
             THEN [tried EXCEPT !.raised = TRUE]
             ELSE IF outs[i]
             THEN CleanupLoop(order, outs, i + 1,
                              [tried EXCEPT !.env = @ \ {PipName(pkg)}])
             ELSE CleanupLoop(order, outs, i + 1, tried)

\* the tracking list after cleanup(): cleared by the statement after the
\* loop, which an exception out of the loop skips
ClearTracked(tracked, raised) == IF raised THEN tracked ELSE <<>>

cleanup ==
    /\ ctor = "constructed"
    /\ \E order \in Orders(CleanupEntries(installed_temp_packages)) :
       \E outs \in [1..Len(order) -> BOOLEAN] :
         LET r == CleanupLoop(order, outs, 1,
                              [env      |-> venv_pkgs,
                               attempts |-> <<>>,
                               raised   |-> FALSE])
         IN  /\ venv_pkgs' = r.env
             /\ uninstalls' = r.attempts
             /\ installed_temp_packages' =
                    ClearTracked(installed_temp_packages, r.raised)
             /\ last_result' = IF r.raised THEN <<RAISED>> ELSE None
    /\ handed' = <<>>
    /\ last_call' = "cleanup"
    /\ repeated' = (last_call = "cleanup")
    /\ UNCHANGED <<supported_py_versions, python_version_venv, venv_name,
                   venv_path, py_venv_exe, _preexisting_packages, ctor,
                   attempt, dirs, creatable, attempts, batch, batch_ins, peer>>
    /\ UNCHANGED <<finderVars, processVars, downloaderVars>>

\* Mutant of RemoveVenv: a failed deletion leaves the method as an exception.
RemoveVenv_raises(rm_ok) ==
    IF venv_path # None /\ venv_path \in dirs
    THEN IF rm_ok
         THEN [result |-> <<"True">>, dirs |-> dirs \ {venv_path}, env |-> {}]
         ELSE [result |-> <<RAISED>>, dirs |-> dirs, env |-> venv_pkgs]
    ELSE [result |-> <<"True">>, dirs |-> dirs, env |-> venv_pkgs]

\* remove_venv: [result, dirs, env].  shutil.rmtree runs only when venv_path
\* is set and exists; every exception of it is caught and gives False.
RemoveVenv(rm_ok) ==
    IF venv_path # None /\ venv_path \in dirs
    THEN IF rm_ok
         THEN [result |-> <<"True">>, dirs |-> dirs \ {venv_path}, env |-> {}]
         ELSE [result |-> <<"False">>, dirs |-> dirs, env |-> venv_pkgs]
    ELSE [result |-> <<"True">>, dirs |-> dirs, env |-> venv_pkgs]

remove_venv ==
    /\ ctor = "constructed"
    /\ \E rm_ok \in BOOLEAN :
         LET r == RemoveVenv(rm_ok)
         IN  /\ dirs' = r.dirs
             /\ venv_pkgs' = r.env
             /\ last_result' = r.result
    /\ uninstalls' = <<>>
    /\ handed' = <<>>
    /\ last_call' = "remove_venv"
    /\ repeated' = (last_call = "remove_venv")
    /\ UNCHANGED <<supported_py_versions, python_version_venv, venv_name,
                   venv_path, py_venv_exe, _preexisting_packages,
                   installed_temp_packages, ctor, attempt, creatable,
                   attempts, batch, batch_ins, peer>>
    /\ UNCHANGED <<finderVars, processVars, downloaderVars>>

\* A manager as __init__ leaves it: one candidate version, created at the
\* first attempt; "b" may be installed in the runtime already, and the first
\* "pip list" may have failed.
ConstructedManager ==
    /\ supported_py_versions = <<1>>
    /\ python_version_venv = 1
    /\ venv_name = VenvName(1)
    /\ venv_path = VenvDir(1)
    /\ py_venv_exe = VenvExe(VenvDir(1))
    /\ venv_pkgs \in SUBSET {<<"b">>}
    /\ _preexisting_packages \in
           { initialize_existing_packages(venv_pkgs, ok) : ok \in BOOLEAN }
    /\ installed_temp_packages = <<>>
    /\ ctor = "constructed"
    /\ attempt = 2
    /\ dirs = {VenvDir(1)}
    /\ creatable = {1}
    /\ attempts = << [version |-> 1, ok |-> TRUE] >>
    /\ last_call = "__init__"
    /\ repeated = FALSE
    /\ last_result = None
    /\ uninstalls = <<>>
    /\ handed = <<>>

InitPkg ==
    /\ ConstructedManager
    /\ NoBatch
    /\ NoPeer
    /\ IdleProcess
    /\ IdleDownloader
    /\ IdleFinder

NextPkg ==
    \/ ensure_packages
    \/ install_package
    \/ install_subdependency
    \/ reinitialize_existing_packages
    \/ cleanup
    \/ remove_venv

SpecPkg == InitPkg /\ [][NextPkg]_vars

-----------------------------------------------------------------------------
(* One ensure_packages call on a constructed manager *)

BatchLists == UNION { [1..n -> Reqs] : n \in 0..MaxBatch }

\* the call ensure_packages(batch) has not been made yet
InitEnsure ==
    /\ ConstructedManager
    /\ batch \in BatchLists
    /\ batch_ins \in [1..Len(batch) -> ElemInput]
    /\ NoPeer
    /\ IdleProcess
    /\ IdleDownloader
    /\ IdleFinder

ensure_batch ==
    /\ last_call = "__init__"
    /\ EnsurePackages(batch, batch_ins)

NextEnsure == ensure_batch

SpecEnsure == InitEnsure /\ [][NextEnsure]_vars

-----------------------------------------------------------------------------
(* From one ensure_packages call to cleanup() *)

RequestLists == UNION { [1..n -> Reqs] : n \in 0..MaxRequested }

\* A manager as __init__ leaves it on a runtime directory that may hold
\* distributions already (create_venv runs "python -m venv" over whatever
\* is at the path); the call ensure_packages(batch) has not been made yet.
InitLifecycle ==
    /\ supported_py_versions = <<1>>
    /\ python_version_venv = 1
    /\ venv_name = VenvName(1)
    /\ venv_path = VenvDir(1)
    /\ py_venv_exe = VenvExe(VenvDir(1))
    /\ venv_pkgs \in SUBSET PkgNames
    /\ _preexisting_packages \in
           { initialize_existing_packages(venv_pkgs, ok) : ok \in BOOLEAN }
    /\ installed_temp_packages = <<>>
    /\ ctor = "constructed"
    /\ attempt = 2
    /\ dirs = {VenvDir(1)}
    /\ creatable = {1}
    /\ attempts = << [version |-> 1, ok |-> TRUE] >>
    /\ last_call = "__init__"
    /\ repeated = FALSE
    /\ last_result = None
    /\ uninstalls = <<>>
    /\ handed = <<>>
    /\ batch \in RequestLists
    /\ batch_ins \in [1..Len(batch) -> ElemInput]
    /\ NoPeer
    /\ IdleProcess
    /\ IdleDownloader
    /\ IdleFinder

NextLifecycle ==
    \/ ensure_batch
    \/ reinitialize_existing_packages
    \/ cleanup

SpecLifecycle == InitLifecycle /\ [][NextLifecycle]_vars

-----------------------------------------------------------------------------
(* Two managers made for one project *)

\* the interpreter version a manager made without python_version uses
\* (PYTHON_VERSION_VENV or its default); the manager of ConstructedManager
\* is such a manager
DefaultVersion == 1

\* An analyser constructs its own manager the way the first one was made,
\* TemporaryPackageManager(destination_folder=os.path.dirname(path)): the
\* same path_dest_folder, the same venv_name, hence the same directory.
\* "python -m venv" runs over whatever is at the path, the predefined
\* packages are installed, and "pip list" gives the manager its
\* _preexisting_packages.
construct_peer ==
    /\ ctor = "constructed"
    /\ peer.ctor = "none"
    /\ DefaultVersion \in creatable
    /\ \E kind \in CreateSuccess, env \in SUBSET {<<"b">>},
          listing_ok \in BOOLEAN :
        LET dir == VenvDir(DefaultVersion)
            r   == create_venv(DefaultVersion, kind, FALSE)
        IN  /\ dirs' = r.dirs
            /\ venv_pkgs' = venv_pkgs \cup env
            /\ peer' = [ ctor                    |-> "constructed",
                         venv_path               |-> dir,
                         py_venv_exe             |-> VenvExe(dir),
                         _preexisting_packages   |->
                             initialize_existing_packages(venv_pkgs \cup env,
                                                          listing_ok),
                         installed_temp_packages |-> <<>> ]
    /\ UNCHANGED <<supported_py_versions, python_version_venv, venv_name,
                   venv_path, py_venv_exe, _preexisting_packages,
                   installed_temp_packages, ctor, attempt, creatable,
                   attempts, last_call, repeated, last_result, uninstalls,
                   handed, batch, batch_ins>>
    /\ UNCHANGED <<finderVars, processVars, downloaderVars>>

\* The second manager's ensure_packages([name]) for a plain package name
\* (the analysers ask for "memray", "jinja2", ...): nothing happens when the
\* name is in its _preexisting_packages or imports; otherwise pip install
\* runs in its runtime and a success is recorded in its tracking list.
peer_ensure_packages ==
    /\ peer.ctor = "constructed"
    /\ Len(peer.installed_temp_packages) < MaxList
    /\ peer.venv_path \in dirs
    /\ \E name \in PkgNames, how \in ElemInput :
         IF Lower(name) \in peer._preexisting_packages \/ how # "install_ok"
         THEN UNCHANGED <<venv_pkgs, peer>>
         ELSE /\ venv_pkgs' = venv_pkgs \cup {PipName(name)}
              /\ peer' = [peer EXCEPT
                             !.installed_temp_packages = Append(@, name)]
    /\ UNCHANGED <<supported_py_versions, python_version_venv, venv_name,
                   venv_path, py_venv_exe, _preexisting_packages,
                   installed_temp_packages, ctor, attempt, dirs, creatable,
                   attempts, last_call, repeated, last_result, uninstalls,
                   handed, batch, batch_ins>>
    /\ UNCHANGED <<finderVars, processVars, downloaderVars>>

NextShared ==
    \/ ensure_packages
    \/ cleanup
    \/ remove_venv
    \/ construct_peer
    \/ peer_ensure_packages

SpecShared == InitPkg /\ [][NextShared]_vars

-----------------------------------------------------------------------------
(* One _run_file call after another, seen from the process *)

\* self.root, the directory of the repository
Root == <<"root">>

\* the directories the process may have been started in
StartDirs == { <<"cwd">>, <<"elsewhere">>, Root }

\* the analyser is about to execute its first candidate
InitRun ==
    /\ cwd \in StartDirs
    /\ launch_dir = cwd
    /\ old_dir = None
    /\ pc = "idle"
    /\ run_log = <<>>
    /\ IdleDownloader
    /\ ConstructedManager
    /\ NoBatch
    /\ NoPeer
    /\ IdleFinder

\* Mutant of RestoreDir: the directory is put back only after a run that
\* raised nothing.
RestoreDir_on_success(out, old, cur) == IF out = "ok" THEN old ELSE cur

\* the finally clause of change_dir: os.chdir(old_dir), whatever the body
\* of the with statement did
RestoreDir(out, old, cur) == old

\* _run_file enters "with self.change_dir(self.root)": old_dir = os.getcwd(),
\* then os.chdir(path_new_dir).  When that raises (the repository directory
\* is gone) the finally clause runs at once and _run_file raises.
change_dir_enter ==
    /\ pc = "idle"
    /\ Len(run_log) < MaxRuns
    /\ old_dir' = cwd
    /\ \E chdir_ok \in BOOLEAN :
         IF chdir_ok
         THEN /\ cwd' = Root
              /\ pc' = "in_dir"
              /\ UNCHANGED run_log
         ELSE /\ cwd' = RestoreDir("launch", cwd, cwd)
              /\ pc' = "idle"
              /\ run_log' = Append(run_log, "launch")
    /\ UNCHANGED <<launch_dir, finderVars, managerVars, downloaderVars>>

\* subprocess.run(command, ..., timeout=..., check=True) in the body of the
\* with statement: it returns, or raises CalledProcessError, TimeoutExpired
\* or another exception.  The candidate is a child process; it does not
\* change the working directory of this one.
subprocess_run ==
    /\ pc = "in_dir"
    /\ \E out \in Outcome : run_log' = Append(run_log, out)
    /\ pc' = "leaving"
    /\ UNCHANGED <<cwd, old_dir, launch_dir, finderVars, managerVars,
                   downloaderVars>>

\* the with statement is left, by return or by exception
change_dir_exit ==
    /\ pc = "leaving"
    /\ cwd' = RestoreDir(run_log[Len(run_log)], old_dir, cwd)
    /\ pc' = "idle"
    /\ UNCHANGED <<old_dir, launch_dir, run_log, finderVars, managerVars,
                   downloaderVars>>

NextRun ==
    \/ change_dir_enter
    \/ subprocess_run
    \/ change_dir_exit

SpecRun == InitRun /\ [][NextRun]_vars

-----------------------------------------------------------------------------
(* Downloader.download_pdf *)

\* what one pass through the try block does: the file is written, the
\* response status is not 200 (OSError is raised), urlopen raises, or
\* writing the file raises
Fetch == {"ok", "bad_status", "url_error", "write_error"}

\* Downloader(max_retries=...).download_pdf(pdf_url) has been called and is
\* about to enter its loop
InitDownload ==
    /\ max_retries \in 0..MaxRetries
    /\ fetches \in [1..max_retries -> Fetch]
    /\ dl_attempt = 0
    /\ dl_result = <<"running">>
    /\ IdleProcess
    /\ ConstructedManager
    /\ NoBatch
    /\ NoPeer
    /\ IdleFinder

\* the except block of download_pdf for the failed attempt `n`: a message,
\* a sleep when n < max_retries, and then "return False" on every path
FailedAttempt(n) == <<"False">>

\* one iteration of "for attempt in range(1, self.max_retries + 1)"
download_attempt ==
    /\ dl_result = <<"running">>
    /\ dl_attempt < max_retries
    /\ dl_attempt' = dl_attempt + 1
    /\ dl_result' = IF fetches[dl_attempt + 1] = "ok" THEN <<"True">>
                    ELSE FailedAttempt(dl_attempt + 1)
    /\ UNCHANGED <<max_retries, fetches, finderVars, managerVars,
                   processVars>>

\* the range is used up and the function ends without a return statement
download_exhausted ==
    /\ dl_result = <<"running">>
    /\ dl_attempt >= max_retries
    /\ dl_result' = None
    /\ UNCHANGED <<max_retries, fetches, dl_attempt, finderVars, managerVars,
                   processVars>>

NextDownload ==
    \/ download_attempt
    \/ download_exhausted

SpecDownload == InitDownload /\ [][NextDownload]_vars

-----------------------------------------------------------------------------
(* The discovery run *)

\* app.invoke({"status": NO_EXAMPLE}): the START edge leads to finders[0].
\* A file of an earlier run may sit at main_filename.
\* The finder's package manager has been constructed.
InitFinder ==
    /\ node = finders[1]
    /\ status = NO_EXAMPLE
    /\ last_error = None
    /\ last_finder = None
    /\ main_file \in {Absent, <<"stale">>}
    /\ example_filename = None
    /\ executed = <<>>
    /\ returned = <<>>
    /\ llm_calls = 0
    /\ cands = 0
    /\ runs = <<>>
    /\ llm_answer = "none"
    /\ ran = None
    /\ tried_ids = <<>>
    /\ ConstructedManager
    /\ NoBatch
    /\ NoPeer
    /\ IdleProcess
    /\ IdleDownloader
    /\ venv_pkgs = {}
    /\ _preexisting_packages = {}

NextFinder ==
    \/ find_in_examples_folder
    \/ find_in_readme_simple
    \/ find_in_readme_cli_usage
    \/ find_in_readme_with_llm
    \/ find_in_readme_with_db
    \/ find_in_docs
    \/ llm_fixer

SpecFinder == InitFinder /\ [][NextFinder]_vars

\* app.invoke runs the graph until no node is left to run: a node that is
\* due does run.
FairFinder == InitFinder /\ [][NextFinder]_vars /\ WF_vars(NextFinder)

-----------------------------------------------------------------------------
(* Properties of the discovery graph (checked under SpecFinder) *)

Range(seq) == { seq[i] : i \in 1..Len(seq) }

Count(seq, x) == Cardinality({ i \in 1..Len(seq) : seq[i] = x })

\* the successor the strategy chain gives a heuristic: the next entry of
\* `finders`, and the end of the run after the last heuristic
HeuristicSuccessor(h) ==
    LET i == CHOOSE k \in 1..6 : finders[k] = h
    IN  IF i < 6 THEN finders[i + 1] ELSE END

\* C2: a node that returns EXAMPLE_FND sends the run to END, and no node
\* runs once the run is at END: a step is never taken from END, and every
\* step that leaves the status at EXAMPLE_FND leaves the graph at END.
C2_FoundHalts ==
    [][ /\ node # END
        /\ (status' = EXAMPLE_FND => node' = END)
        /\ (example_filename' # example_filename => status' = EXAMPLE_FND) ]_vars

\* a heuristic other than the last found the example and the run stopped
C2_Witness ==
    /\ node = END
    /\ status = EXAMPLE_FND
    /\ executed = <<"find_in_examples_folder", "find_in_readme_simple">>

HeuristicsRun == SelectSeq(executed, LAMBDA n : n \in Heuristics)

\* the node that ran last
LastNode == executed[Len(executed)]

\* C17: the heuristics run in the fixed order examples folder, README
\* simple, README CLI usage, README LLM, README python-file pattern, docs
\* scan: a heuristic runs only after every heuristic before it in that order
\* has run, and none runs twice.
C17_FixedOrder ==
    /\ Len(HeuristicsRun) <= 6
    /\ \A i \in 1..Len(HeuristicsRun) : HeuristicsRun[i] = finders[i]

\* all six heuristics ran, in order, with repair runs in between
C17_Witness ==
    /\ Len(HeuristicsRun) = 6
    /\ Count(executed, "llm_fixer") >= 2
    /\ LastNode = "find_in_docs"

\* C18: the examples-folder strategy and the README-block strategy execute
\* their candidates one at a time and commit the first that succeeds: the
\* success is the last execution the strategy makes, the file at the
\* canonical path is that candidate, and the run ends with it; every
\* candidate is executed only when none succeeds.
C18_FirstSuccessCommitted ==
    (Len(executed) > 0
       /\ LastNode \in {"find_in_examples_folder", "find_in_readme_simple"}) =>
        /\ Len(runs) <= cands
        /\ \A k \in 1..(Len(runs) - 1) : runs[k] # "ok"
        /\ IF runs # <<>> /\ runs[Len(runs)] = "ok"
           THEN /\ status = EXAMPLE_FND
                /\ node = END
                /\ main_file = <<LastNode, Len(runs)>>
                /\ example_filename = main_filename
           ELSE /\ Len(runs) = cands
                /\ status # EXAMPLE_FND

\* three files in the examples folder, the second succeeds: two executions
C18_Witness ==
    /\ executed = <<"find_in_examples_folder">>
    /\ cands = 3
    /\ runs = <<"nonzero", "ok">>
    /\ main_file = <<"find_in_examples_folder", 2>>

\* C19: an execution that exceeds its timeout never aborts the run: the node
\* that made it does not raise, the run goes on at a node of the graph or
\* ends, and when the timeout is the last execution of a heuristic that
\* reports a failed candidate, the recorded error is the timeout.
C19_TimeoutNotFatal ==
    (runs # <<>> /\ runs[Len(runs)] = "timeout") =>
        /\ returned[Len(returned)] # RAISED
        /\ node # RAISED
        /\ (LastNode \in Heuristics /\ status = EXAMPLE_ERR) =>
               last_error = ErrorOutput("timeout", main_file)

\* C20: no failure of an execution of the candidate file (timeout, non-zero
\* exit, launch error) leaves the node that made the execution as an
\* exception.
C20_FailuresCaught ==
    \A k \in 1..Len(runs) :
        runs[k] \in Failure => returned[Len(returned)] # RAISED

\* C21: at most one example path is reported, and when the run ends with an
\* example the file at the canonical path holds the content that the last
\* successful execution ran.
C21_RunIsPersisted ==
    (node = END /\ status = EXAMPLE_FND) =>
        /\ example_filename = main_filename
        /\ ran # None
        /\ main_file = ran

\* C22: project_data["example_filename"], unset at the start, is never
\* anything but the canonical path; it is set exactly when the status is
\* EXAMPLE_FND, which ends the run, and the file is then on disk; a run that
\* ends without an example leaves it unset.
C22_PathIffFound ==
    /\ example_filename \in {None, main_filename}
    /\ example_filename = main_filename <=> status = EXAMPLE_FND
    /\ status = EXAMPLE_FND => node = END /\ main_file # Absent
    /\ (node = END /\ status # EXAMPLE_FND) => example_filename = None

\* a repair run produced the example: path set, file on disk, run over
C22_Witness ==
    /\ node = END
    /\ status = EXAMPLE_FND
    /\ example_filename = main_filename
    /\ LastNode = "llm_fixer"
    /\ main_file # Absent

\* C23: a run that ends without an example after some candidate execution
\* failed ends with last_error holding an error text.
C23_ErrorHandedBack ==
    (node = END /\ status # EXAMPLE_FND /\ EXAMPLE_ERR \in Range(returned)) =>
        last_error # None

\* C24: when the examples folder holds a file that exits 0, the run ends at
\* once with EXAMPLE_FND, the reported path is the canonical path, the file
\* there is the copy of that example, and the oracle has not been invoked.
C24_ExamplesFolderFound ==
    (executed = <<"find_in_examples_folder">> /\ "ok" \in Range(runs)) =>
        /\ node = END
        /\ status = EXAMPLE_FND
        /\ example_filename = main_filename
        /\ main_file = <<"find_in_examples_folder", Len(runs)>>
        /\ ran = main_file
        /\ llm_calls = 0

\* one example file, exit 0: found by the first node, no oracle call
C24_Witness ==
    /\ executed = <<"find_in_examples_folder">>
    /\ cands = 1
    /\ runs = <<"ok">>
    /\ node = END
    /\ llm_calls = 0

\* C25: no examples folder, a README with one Python block that fails, and
\* a repair answer whose code runs: the examples node hands on to the README
\* node, the README node leaves its block on disk and hands on to llm_fixer,
\* and llm_fixer ends the run with EXAMPLE_FND, having run exactly once.
C25_RepairScenario ==
    /\ (executed = <<"find_in_examples_folder">> /\ cands = 0) =>
           node = "find_in_readme_simple" /\ status = NO_EXAMPLE
    /\ (executed = <<"find_in_examples_folder", "find_in_readme_simple">>
          /\ returned[1] = NO_EXAMPLE /\ cands = 1 /\ runs # <<>>
          /\ runs[1] \in Failure) =>
           /\ node = "llm_fixer"
           /\ status = EXAMPLE_ERR
           /\ main_file = <<"find_in_readme_simple", 1>>
           /\ last_error = ErrorOutput(runs[1], main_file)
    /\ (executed = <<"find_in_examples_folder", "find_in_readme_simple",
                     "llm_fixer">>
          /\ returned[1] = NO_EXAMPLE /\ returned[2] = EXAMPLE_ERR
          /\ llm_answer = "code" /\ runs = <<"ok">>) =>
           /\ node = END
           /\ status = EXAMPLE_FND
           /\ example_filename = main_filename
           /\ Count(executed, "llm_fixer") = 1
           /\ llm_calls = 1

\* the scenario has run to its end
C25_Witness ==
    /\ executed = <<"find_in_examples_folder", "find_in_readme_simple",
                    "llm_fixer">>
    /\ returned = <<NO_EXAMPLE, EXAMPLE_ERR, EXAMPLE_FND>>
    /\ node = END
    /\ llm_calls = 1

\* C26: a heuristic that finds no candidate, executes nothing and gets no
\* text from the oracle (if it asks) returns NO_EXAMPLE without raising and
\* hands on to its successor; a run in which every heuristic does so ends
\* after find_in_docs with NO_EXAMPLE, no example path and no repair run.
C26_NothingFoundIsAValue ==
    /\ [][ (node \in Heuristics /\ cands' = 0 /\ runs' = <<>>
              /\ llm_answer' \in {"none", "empty"}) =>
               /\ node' = HeuristicSuccessor(node)
               /\ status' = NO_EXAMPLE
               /\ example_filename' = example_filename ]_vars
    /\ []( (Len(executed) = 6
              /\ \A i \in 1..6 : returned[i] = NO_EXAMPLE) =>
               /\ node = END
               /\ status = NO_EXAMPLE
               /\ example_filename = None
               /\ "llm_fixer" \notin Range(executed) )

\* nothing to run anywhere, the oracle asked once for the README: NOT_FOUND
C26_Witness ==
    /\ node = END
    /\ status = NO_EXAMPLE
    /\ Len(executed) = 6
    /\ \A i \in 1..6 : returned[i] = NO_EXAMPLE
    /\ llm_calls = 1
    /\ ran = None

\* C27: every discovery run reaches END after a bounded number of node
\* executions: each heuristic runs at most once and llm_fixer at most once
\* per heuristic.
C27_ReachesEnd ==
    /\ [](\A h \in Heuristics : Count(executed, h) <= 1)
    /\ [](Count(executed, "llm_fixer") <= Cardinality(Heuristics))
    /\ <>(node = END)

\* the position of the last failed execution in a sequence of outcomes
LastFailure(outs) ==
    CHOOSE k \in 1..Len(outs) :
        /\ outs[k] \in Failure
        /\ \A j \in (k + 1)..Len(outs) : outs[j] \notin Failure

\* C28: a heuristic that made no failing execution leaves last_error empty,
\* and when llm_fixer is due last_error is the error of the last failed
\* execution of the heuristic that ran just before it.
C28_ErrorOfLastFailure ==
    /\ (executed # <<>> /\ node # RAISED /\ LastNode \in Heuristics
          /\ \A k \in 1..Len(runs) : runs[k] \notin Failure) =>
           last_error = None
    /\ node = "llm_fixer" =>
           /\ last_error # None
           /\ \E k \in 1..Len(runs) : runs[k] \in Failure
           /\ last_error[2] = runs[LastFailure(runs)]

\* C29: when every README block fails in find_in_readme_simple, all blocks
\* were tried, the file at the canonical path is the last block, llm_fixer
\* is the next node, and a repair it produces is the repair of that block.
C29_LastBlockKept ==
    /\ []( (executed # <<>> /\ LastNode = "find_in_readme_simple"
              /\ cands > 0 /\ \A k \in 1..Len(runs) : runs[k] \in Failure) =>
               /\ Len(runs) = cands
               /\ main_file = <<"find_in_readme_simple", cands>>
               /\ status = EXAMPLE_ERR
               /\ node = "llm_fixer" )
    /\ [][ (node = "llm_fixer" /\ last_finder = "find_in_readme_simple"
              /\ status' = EXAMPLE_FND) =>
               \E k \in 1..MaxCand :
                   /\ main_file = <<"find_in_readme_simple", k>>
                   /\ main_file' = <<"fixed">> \o main_file ]_vars

\* three README blocks, all failed; the third is on disk for llm_fixer
C29_Witness ==
    /\ executed # <<>>
    /\ LastNode = "find_in_readme_simple"
    /\ cands = 3
    /\ Len(runs) = 3
    /\ main_file = <<"find_in_readme_simple", 3>>
    /\ node = "llm_fixer"

\* C30: whenever llm_fixer is due the file at the canonical path exists, and
\* llm_fixer raises only when the oracle does.
C30_FileThereForRepair ==
    /\ node = "llm_fixer" => main_file # Absent
    /\ (executed # <<>> /\ LastNode = "llm_fixer" /\ node = RAISED) =>
           llm_answer = "raise"

\* llm_fixer is due a second time; the first repair failed and removed the
\* file, the heuristic in between wrote a new one
C30_Witness ==
    /\ node = "llm_fixer"
    /\ Count(executed, "llm_fixer") = 1
    /\ executed[2] = "llm_fixer"
    /\ returned[2] = NO_EXAMPLE
    /\ Len(executed) = 3
    /\ main_file # Absent

\* C37: the examples-folder strategy tries the files in the lexicographic
\* order of their names (the k-th file tried is the k-th name), and the
\* README-block strategy tries the blocks in the order they stand in the
\* document.
C37_StableCandidateOrder ==
    /\ (executed # <<>> /\ LastNode = "find_in_examples_folder") =>
           \A k \in 1..Len(tried_ids) : tried_ids[k] = k
    /\ (executed # <<>> /\ LastNode = "find_in_readme_simple") =>
           \A j, k \in 1..Len(tried_ids) :
               j < k => tried_ids[j] < tried_ids[k]

-----------------------------------------------------------------------------
(* Properties of candidate executions seen from the process (checked under
   SpecRun) *)

\* C38: whenever no _run_file call is under way the working directory of
\* the process is the one it had before the first execution, whatever the
\* outcomes of the executions made so far; during an execution it is the
\* repository directory.
C38_WorkingDirRestored ==
    /\ pc = "idle" => cwd = launch_dir
    /\ pc \in {"in_dir", "leaving"} => cwd = Root /\ old_dir = launch_dir

\* four executions from a directory other than the repository's: one
\* succeeded, one exited non-zero, one timed out, one failed to launch
C38_Witness ==
    /\ pc = "idle"
    /\ Range(run_log) = Outcome
    /\ launch_dir # Root
    /\ cwd = launch_dir
    /\ old_dir = launch_dir

-----------------------------------------------------------------------------
(* Properties of download_pdf (checked under SpecDownload) *)

\* C39: download_pdf returns True at the first attempt that succeeds, and
\* returns False only when max_retries attempts were made and all failed:
\* a failed attempt numbered below max_retries is followed by another one.
C39_RetriesUntilExhausted ==
    /\ dl_attempt <= max_retries
    /\ dl_result = <<"True">> =>
           /\ fetches[dl_attempt] = "ok"
           /\ \A k \in 1..(dl_attempt - 1) : fetches[k] # "ok"
    /\ dl_result = <<"False">> =>
           /\ dl_attempt = max_retries
           /\ \A k \in 1..max_retries : fetches[k] # "ok"

-----------------------------------------------------------------------------
(* Properties of the package operations (checked under SpecPkg) *)

\* the base name of a tracked entry, as ensure_packages computes it and
\* compares it with _preexisting_packages
BaseName(pkg) == Lower(_extract_base_package(pkg))

\* C1: cleanup() never issues a pip uninstall for a package whose base name
\* is in _preexisting_packages at the time of the call.
C1_PreexistingKept ==
    last_call = "cleanup" =>
        \A i \in 1..Len(uninstalls) :
            BaseName(uninstalls[i]) \notin _preexisting_packages

\* C6: cleanup() issues exactly one uninstall for each distinct tracked
\* entry whose base name is not in _preexisting_packages, and none for
\* anything else.
C6_OneUninstallPerEntry ==
    [][ last_call' = "cleanup" =>
          /\ \A e \in CleanupEntries(installed_temp_packages) :
                 BaseName(e) \notin _preexisting_packages =>
                     Count(uninstalls', e) = 1
          /\ \A i \in 1..Len(uninstalls') :
                 /\ uninstalls'[i] \in CleanupEntries(installed_temp_packages)
                 /\ BaseName(uninstalls'[i]) \notin _preexisting_packages ]_vars

\* C7: the second of two cleanup() calls in a row makes no uninstall attempt.
C7_SecondCleanupIdle ==
    (last_call = "cleanup" /\ repeated) => uninstalls = <<>>

\* C8: after any call of cleanup() the tracking list is empty.
C8_TrackingCleared ==
    last_call = "cleanup" => installed_temp_packages = <<>>

\* C12: every distribution an operation newly installs in the runtime is
\* recorded in installed_temp_packages by that operation, and an entry stays
\* recorded until the next cleanup().
C12_InstallsRecorded ==
    [][ /\ \A p \in venv_pkgs' \ venv_pkgs :
               \E k \in 1..Len(installed_temp_packages') :
                   PipName(installed_temp_packages'[k]) = p
        /\ last_call' # "cleanup" =>
               \A e \in Range(installed_temp_packages) :
                   Count(installed_temp_packages', e)
                       >= Count(installed_temp_packages, e) ]_vars

\* C13: installed_temp_packages grows only in the manager's own operations,
\* and only by entries whose install succeeded (the distribution is in the
\* runtime afterwards); a failed install adds nothing.
C13_EntriesAreInstalls ==
    [][ Len(installed_temp_packages') > Len(installed_temp_packages) =>
          /\ last_call' \in {"ensure_packages", "install_package"}
          /\ last_result' # <<"False">>
          /\ \A k \in (Len(installed_temp_packages) + 1)
                          ..Len(installed_temp_packages') :
                 PipName(installed_temp_packages'[k]) \in venv_pkgs' ]_vars

\* C15: install_package returns True or False for every package name, and
\* raises only when the runtime has no pip.
C15_BooleanOutcome ==
    last_call = "install_package" =>
        \/ last_result \in {<<"True">>, <<"False">>}
        \/ last_result = <<RAISED>> /\ ~Launchable

\* C16: remove_venv() never raises; it returns False exactly when the
\* runtime directory exists and could not be deleted (it is still there),
\* and True otherwise, with the directory gone.
C16_RemoveReportsFlag ==
    [][ last_call' = "remove_venv" =>
          /\ last_result' \in {<<"True">>, <<"False">>}
          /\ last_result' = <<"False">> <=>
                 (venv_path \in dirs /\ venv_path \in dirs')
          /\ last_result' = <<"True">> => venv_path \notin dirs'
          /\ dirs' \subseteq dirs ]_vars

\* the runtime directory exists and its deletion failed: False, no exception
C16_Witness ==
    /\ last_call = "remove_venv"
    /\ last_result = <<"False">>
    /\ venv_path \in dirs
    /\ installed_temp_packages # <<>>

\* C31: a failing uninstall does not stop cleanup(): the call returns
\* without raising and every entry cleanup() decides to uninstall gets its
\* uninstall attempt, whatever happened to the attempts before it.
C31_FailedUninstallSkipped ==
    [][ last_call' = "cleanup" =>
          /\ last_result' = None
          /\ \A e \in CleanupEntries(installed_temp_packages) :
                 ShouldUninstall(e) => Count(uninstalls', e) = 1 ]_vars

-----------------------------------------------------------------------------
(* Properties of one ensure_packages call (checked under SpecEnsure) *)

RemoveAt(seq, i) == SubSeq(seq, 1, i - 1) \o SubSeq(seq, i + 1, Len(seq))

\* entry i of the batch gets as far as "pip install"
InstallAttempted(i) ==
    LET stripped == Strip(batch[i])
        base     == _extract_base_package(stripped)
    IN  /\ stripped # <<>>
        /\ Head(stripped) # "-"
        /\ \/ "[" \in Range(stripped)
           \/ /\ base # <<>>
              /\ Lower(base) \notin _preexisting_packages
              /\ batch_ins[i] # "importable"

\* the positions of the batch whose install fails, in list order
FailedInstalls ==
    SelectSeq([k \in 1..Len(batch) |-> k],
              LAMBDA k : InstallAttempted(k) /\ batch_ins[k] = "install_fail")

\* C14: a failing install does not end ensure_packages: the call returns
\* without raising, each failure is handed to error_mng.handle_error, and
\* the tracking list and the runtime end up exactly as they do for the same
\* list without the failing entry: the entries after it are processed as if
\* the failure had not occurred.
C14_FailureNotFatal ==
    [][ last_call' = "ensure_packages" =>
          /\ last_result' = None
          /\ handed' = [k \in 1..Len(FailedInstalls) |->
                            Strip(batch[FailedInstalls[k]])]
          /\ \A i \in 1..Len(batch) :
                 batch_ins[i] = "install_fail" =>
                     LET r == EnsureResult(RemoveAt(batch, i),
                                           RemoveAt(batch_ins, i))
                     IN  /\ installed_temp_packages' = r.installed
                         /\ venv_pkgs' = r.env ]_vars

\* the first install of the batch failed and was handed on, the second
\* entry was installed and recorded after it
C14_Witness ==
    /\ last_call = "ensure_packages"
    /\ batch = << <<"a", "=", "=", "1">>, <<" ", "b">> >>
    /\ handed = << <<"a", "=", "=", "1">> >>
    /\ installed_temp_packages = << <<"b">> >>

\* entry i of the batch is a package request without extras that has a
\* base name
PlainRequest(i) ==
    LET stripped == Strip(batch[i])
    IN  /\ stripped # <<>>
        /\ Head(stripped) # "-"
        /\ "[" \notin Range(stripped)
        /\ _extract_base_package(stripped) # <<>>

\* its base name is in _preexisting_packages, or it imports in the runtime
AlreadyThere(i) ==
    \/ BaseName(Strip(batch[i])) \in _preexisting_packages
    \/ batch_ins[i] = "importable"

\* the entries of a sequence of requirement strings that have no extras
WithoutExtras(seq) == SelectSeq(seq, LAMBDA e : "[" \notin Range(e))

\* the requests without extras that are not already there and whose install
\* fares as `how`, in list order
PlainInstalls(how) ==
    LET idx == SelectSeq([k \in 1..Len(batch) |-> k],
                         LAMBDA k : /\ PlainRequest(k)
                                    /\ ~AlreadyThere(k)
                                    /\ batch_ins[k] = how)
    IN  [k \in 1..Len(idx) |-> Strip(batch[idx[k]])]

\* C32: for the requests without extras, ensure_packages attempts the
\* install of exactly those that have a base name which is neither in
\* _preexisting_packages nor importable: the successful ones are what it
\* records and adds to the runtime, the failed ones what it hands to
\* error_mng, and for the others nothing is recorded or installed.
C32_PrecheckedInstalls ==
    [][ last_call' = "ensure_packages" =>
          /\ WithoutExtras(installed_temp_packages') =
                 WithoutExtras(installed_temp_packages)
                     \o PlainInstalls("install_ok")
          /\ WithoutExtras(handed') = PlainInstalls("install_fail")
          /\ \A k \in 1..Len(batch) :
                 (PlainRequest(k) /\ AlreadyThere(k)
                     /\ PipName(batch[k]) \notin venv_pkgs
                     /\ \A j \in 1..Len(batch) :
                            j # k => PipName(batch[j]) # PipName(batch[k]))
                 => PipName(batch[k]) \notin venv_pkgs' ]_vars

\* " b" is preexisting and "a" imports: neither is installed or recorded;
\* "a==1" is installed and recorded
C32_Witness ==
    /\ last_call = "ensure_packages"
    /\ batch = << <<" ", "b">>, <<"a">>, <<"a", "=", "=", "1">> >>
    /\ <<"b">> \in _preexisting_packages
    /\ batch_ins = <<"install_ok", "importable", "install_ok">>
    /\ installed_temp_packages = << <<"a", "=", "=", "1">> >>
    /\ handed = <<>>

-----------------------------------------------------------------------------
(* Properties of the tracked entries up to cleanup() (checked under
   SpecLifecycle) *)

\* the requests with extras whose install fares as one of `hows`, in list
\* order
ExtrasInstalls(hows) ==
    LET idx == SelectSeq([k \in 1..Len(batch) |-> k],
                         LAMBDA k : /\ Strip(batch[k]) # <<>>
                                    /\ Head(Strip(batch[k])) # "-"
                                    /\ "[" \in Range(batch[k])
                                    /\ batch_ins[k] \in hows)
    IN  [k \in 1..Len(idx) |-> Strip(batch[idx[k]])]

\* the entries of a sequence of requirement strings that have extras
WithExtras(seq) == SelectSeq(seq, LAMBDA e : "[" \in Range(e))

\* C33: every request with extras gets its install attempt whatever
\* _preexisting_packages and the import check say: it is recorded when the
\* install succeeds and handed to error_mng when it fails; and cleanup()
\* makes no uninstall attempt for a tracked entry with extras whose base
\* name is in _preexisting_packages.
C33_ExtrasInstalledDirectly ==
    [][ /\ last_call' = "ensure_packages" =>
              /\ WithExtras(installed_temp_packages') =
                     WithExtras(installed_temp_packages)
                         \o ExtrasInstalls({"importable", "install_ok"})
              /\ WithExtras(handed') = ExtrasInstalls({"install_fail"})
        /\ last_call' = "cleanup" =>
              \A e \in Range(installed_temp_packages) :
                  ("[" \in Range(e) /\ BaseName(e) \in _preexisting_packages)
                      => e \notin Range(uninstalls') ]_vars

\* "a" was in the runtime from the start; "A[x]" and " b" were installed
\* and tracked all the same, and cleanup() uninstalled "b" only
C33_Witness ==
    /\ last_call = "cleanup"
    /\ batch = << <<"A", "[", "x", "]">>, <<" ", "b">> >>
    /\ batch_ins = <<"install_ok", "install_ok">>
    /\ _preexisting_packages = { <<"a">> }
    /\ uninstalls = << <<"b">> >>
    /\ <<"a">> \in venv_pkgs
    /\ installed_temp_packages = <<>>

\* C34: a call of initialize_existing_packages() never turns a tracked
\* entry that cleanup() would uninstall into one it preserves.
C34_RedetectionKeepsTemporary ==
    [][ last_call' = "initialize_existing_packages" =>
          \A e \in Range(installed_temp_packages) :
              ShouldUninstall(e) => ShouldUninstall(e)' ]_vars

-----------------------------------------------------------------------------
(* Properties of two managers of one project (checked under SpecShared) *)

\* C35: two constructed managers never have the same runtime directory, and
\* a cleanup() or remove_venv() of the first manager removes neither a
\* distribution the second manager tracks or counts as preexisting nor the
\* second manager's runtime directory.
C35_ExclusiveRuntime ==
    /\ []( (ctor = "constructed" /\ peer.ctor = "constructed") =>
               peer.venv_path # venv_path )
    /\ [][ (peer.ctor = "constructed"
              /\ last_call' \in {"cleanup", "remove_venv"}
              /\ peer' = peer) =>
               /\ \A q \in venv_pkgs \ venv_pkgs' :
                      /\ q \notin peer._preexisting_packages
                      /\ \A k \in 1..Len(peer.installed_temp_packages) :
                             PipName(peer.installed_temp_packages[k]) # q
               /\ peer.venv_path \in dirs => peer.venv_path \in dirs' ]_vars

-----------------------------------------------------------------------------
(* Properties of the construction (checked under SpecVenv) *)

\* the positions of supported_py_versions whose version can be created
CreatableIndices ==
    { i \in 1..Len(supported_py_versions) :
        supported_py_versions[i] \in creatable }

Min(S) == CHOOSE x \in S : \A y \in S : x <= y
Max(S) == CHOOSE x \in S : \A y \in S : x >= y

\* the directory of every failed attempt is gone
FailedDirsDeleted ==
    \A k \in 1..Len(attempts) :
        ~attempts[k].ok => VenvDir(attempts[k].version) \notin dirs

\* C11: version negotiation is bounded and fatal on exhaustion: no version
\* is attempted twice, there are at most len(supported_py_versions) attempts,
\* no attempt follows a successful one, and when every candidate has failed
\* __init__ raises: the loop is over and no manager is constructed.
C11_BoundedAndFatal ==
    /\ Len(attempts) <= Len(supported_py_versions)
    /\ \A j, k \in 1..Len(attempts) :
           j # k => attempts[j].version # attempts[k].version
    /\ \A k \in 1..(Len(attempts) - 1) : ~attempts[k].ok
    /\ ctor = "constructed" <=>
           (attempts # <<>> /\ attempts[Len(attempts)].ok)
    /\ (Len(attempts) = Len(supported_py_versions)
          /\ \A k \in 1..Len(attempts) : ~attempts[k].ok) => ctor = "raised"

\* three candidates, each attempted once, all failed: construction raised
C11_Witness ==
    /\ ctor = "raised"
    /\ Len(supported_py_versions) = 3
    /\ Len(attempts) = 3
    /\ \A k \in 1..3 : ~attempts[k].ok

\* path p lies inside directory d
Inside(p, d) == Len(p) > Len(d) /\ SubSeq(p, 1, Len(d)) = d

\* C36: after a successful construction the interpreter path lies inside the
\* runtime directory, and the runtime directory is the existing directory of
\* the version the last, successful attempt selected, not the directory of
\* a failed attempt.
C36_ExeInsideSelectedRuntime ==
    ctor = "constructed" =>
        /\ attempts # <<>>
        /\ attempts[Len(attempts)].ok
        /\ python_version_venv = attempts[Len(attempts)].version
        /\ venv_name = VenvName(python_version_venv)
        /\ venv_path = VenvDir(python_version_venv)
        /\ venv_path \in dirs
        /\ py_venv_exe # None
        /\ Inside(py_venv_exe, venv_path)
        /\ \A k \in 1..Len(attempts) :
               ~attempts[k].ok => venv_path # VenvDir(attempts[k].version)

\* two candidates failed, the second leaving its directory behind until it
\* was removed, and the third was created
C36_Witness ==
    /\ ctor = "constructed"
    /\ Len(attempts) = 3
    /\ ~attempts[1].ok
    /\ ~attempts[2].ok
    /\ py_venv_exe = VenvExe(VenvDir(attempts[3].version))

C10_Original ==
    \A k \in 1..Len(attempts) :
        attempts[k].version = supported_py_versions[k]

\* C10 amended: construction attempts the candidates in the reverse of the
\* order of supported_py_versions, starting with its last element (the list
\* is ascending, so that is the newest version); a candidate is attempted
\* only after every candidate behind it in the list was attempted and failed.
C10_ReverseListOrder ==
    \A k \in 1..Len(attempts) :
        /\ k <= Len(supported_py_versions)
        /\ attempts[k].version =
               supported_py_versions[Len(supported_py_versions) - k + 1]
        /\ \A j \in 1..(k - 1) : ~attempts[j].ok

\* all three candidates were attempted, the first of the list last
C10_Witness ==
    /\ Len(supported_py_versions) = 3
    /\ Len(attempts) = 3
    /\ attempts[3].ok
    /\ attempts[3].version = supported_py_versions[1]

=============================================================================
